---- MODULE Spec2Model ----
(***************************************************************************)
(* Model of the listicle generator                                         *)
(* (src/stable-diffusion/scripts/generate_listicle.py) and of the          *)
(* /generate endpoint in front of it (src/api/main.py): wrap_text and      *)
(* add_text_overlay, the three backgrounds, generate_content_for_topic,    *)
(* cleanup_old_images and generate_listicle_images.  A text is a sequence  *)
(* of one-character strings; a font is a table of horizontal advances, one *)
(* per character; an image is its size, its mode, what it was made from    *)
(* and the layers drawn over that; the file store is a set of files.       *)
(***************************************************************************)
EXTENDS Integers, Sequences, FiniteSets, TLC

VARIABLES text, font, max_width, words, widx, lines, current_line, wrapped, wpc

VARIABLES format_type, background_type, slide_data, slide_number, font_available, image,
          layout, rendered, earlier, rpc

VARIABLES pipe, ai_call, ai_loaded, ai_count

VARIABLES stock_topic, stock_size, stock_idx, stock_log, stock_result, stock_pc

VARIABLES topic, num_slides, clean_topic, matched_key, slides, cpc

VARIABLES entry, request, generator_available, files, dirs, store0, keep_latest,
          to_remove, remove_failed, slides_content, generated, now, reached, response,
          gpc

VARIABLES calls

VARIABLES heap, ov

wrapVars == <<text, font, max_width, words, widx, lines, current_line, wrapped, wpc>>

renderVars == <<format_type, background_type, slide_data, slide_number, font_available,
                image, layout, rendered, earlier, rpc>>

aiVars == <<pipe, ai_call, ai_loaded, ai_count>>

stockVars == <<stock_topic, stock_size, stock_idx, stock_log, stock_result, stock_pc>>

contentVars == <<topic, num_slides, clean_topic, matched_key, slides, cpc>>

genVars == <<entry, request, generator_available, files, dirs, store0, keep_latest,
             to_remove, remove_failed, slides_content, generated, now, reached,
             response, gpc>>

callVars == <<calls>>

overlayVars == <<heap, ov>>

notWrap == <<renderVars, aiVars, stockVars, contentVars, genVars, callVars,
             overlayVars>>

notRender == <<wrapVars, aiVars, stockVars, contentVars, genVars, callVars,
               overlayVars>>

notAI == <<wrapVars, renderVars, stockVars, contentVars, genVars, callVars,
           overlayVars>>

notStock == <<wrapVars, renderVars, aiVars, contentVars, genVars, callVars,
              overlayVars>>

notContent == <<wrapVars, renderVars, aiVars, stockVars, genVars, callVars,
                overlayVars>>

notGen == <<wrapVars, renderVars, aiVars, stockVars, contentVars, callVars,
            overlayVars>>

notCalls == <<wrapVars, renderVars, aiVars, stockVars, contentVars, genVars,
              overlayVars>>

notOverlay == <<wrapVars, renderVars, aiVars, stockVars, contentVars, genVars,
                callVars>>

vars == <<wrapVars, renderVars, aiVars, stockVars, contentVars, genVars, callVars,
          overlayVars>>

(* ------------------------------ bounds --------------------------------- *)
MaxLen == 5
MaxW == 5
MaxSlides == 2

(* ---------------------------- characters ------------------------------- *)
SP == " "
NL == "\n"
Letters == {"a", "b"}
Whitespace == {SP, NL}
Chars == Letters \cup Whitespace

RECURSIVE TextsOfLen(_)
TextsOfLen(n) ==
    IF n = 0 THEN {<<>>}
    ELSE {Append(t, c) : t \in TextsOfLen(n - 1), c \in Chars}

Texts == UNION {TextsOfLen(n) : n \in 0..MaxLen}

(* ------------------------- Python string helpers ----------------------- *)
Max(a, b) == IF a >= b THEN a ELSE b

\* str.split(sep): every occurrence of sep separates, empty pieces are kept,
\* and the empty string splits into one empty piece.
RECURSIVE SplitAcc(_, _, _, _)
SplitAcc(s, sep, acc, cur) ==
    IF s = <<>> THEN Append(acc, cur)
    ELSE IF Head(s) = sep THEN SplitAcc(Tail(s), sep, Append(acc, cur), <<>>)
    ELSE SplitAcc(Tail(s), sep, acc, Append(cur, Head(s)))

Split(s, sep) == SplitAcc(s, sep, <<>>, <<>>)

\* sep.join(parts)
RECURSIVE Join(_, _)
Join(parts, sep) ==
    IF parts = <<>> THEN <<>>
    ELSE IF Len(parts) = 1 THEN parts[1]
    ELSE parts[1] \o <<sep>> \o Join(Tail(parts), sep)

\* str.split(): the maximal runs of non-whitespace characters.
RECURSIVE WsAcc(_, _, _)
WsAcc(s, acc, cur) ==
    IF s = <<>> THEN (IF cur = <<>> THEN acc ELSE Append(acc, cur))
    ELSE IF Head(s) \in Whitespace
         THEN WsAcc(Tail(s), IF cur = <<>> THEN acc ELSE Append(acc, cur), <<>>)
         ELSE WsAcc(Tail(s), acc, Append(cur, Head(s)))

WsWords(s) == WsAcc(s, <<>>, <<>>)

(* ---------------------------- font metrics ----------------------------- *)
RECURSIVE Advance(_, _)
Advance(s, f) ==
    IF s = <<>> THEN 0 ELSE f[Head(s)] + Advance(Tail(s), f)

RECURSIVE MaxAdvance(_, _)
MaxAdvance(ls, f) ==
    IF ls = <<>> THEN 0 ELSE Max(Advance(Head(ls), f), MaxAdvance(Tail(ls), f))

\* draw.textbbox((0, 0), s, font=f), bbox[2] - bbox[0]: the advance of the
\* string, and for a string holding newlines that of its widest line.
TextWidth(s, f) == MaxAdvance(Split(s, NL), f)

SmallFonts ==
    { [c \in Chars |-> CASE c = "a" -> 1 [] c = "b" -> 4 [] c = SP -> 1 [] OTHER -> 0],
      [c \in Chars |-> CASE c = "a" -> 2 [] c = "b" -> 2 [] c = SP -> 0 [] OTHER -> 0] }

\* The title of the portrait scenario: 12 one-letter words, each 150 wide in
\* ScenarioFonts, against the portrait budget 1080 - 2 * 100.
ScenarioTitle == [i \in 1..23 |-> IF i % 2 = 1 THEN "a" ELSE SP]

ScenarioFonts ==
    { [c \in Chars |-> CASE c \in Letters -> 150 [] c = SP -> s [] OTHER -> 0] : s \in 0..32 }

ScenarioBudget == 1080 - (100 * 2)

(* ------------------------------ wrap_text ------------------------------ *)
\* Variants of the iteration, each with one slip: the word that overflows the
\* line is lost; the current line is measured instead of the candidate line;
\* the candidate line must measure strictly less than the budget; a word
\* wider than the budget is skipped.
WrapWord_DropsOnBreak(st, word, f, W) ==
    LET test_line == st.current_line
                       \o (IF st.current_line # <<>> THEN <<SP>> ELSE <<>>)
                       \o word
    IN  IF TextWidth(test_line, f) <= W
        THEN [lines |-> st.lines, current_line |-> test_line]
        ELSE IF st.current_line # <<>>
             THEN [lines |-> Append(st.lines, st.current_line), current_line |-> <<>>]
             ELSE [lines |-> Append(st.lines, word), current_line |-> st.current_line]

WrapWord_MeasuresCurrent(st, word, f, W) ==
    LET test_line == st.current_line
                       \o (IF st.current_line # <<>> THEN <<SP>> ELSE <<>>)
                       \o word
    IN  IF TextWidth(st.current_line, f) <= W
        THEN [lines |-> st.lines, current_line |-> test_line]
        ELSE IF st.current_line # <<>>
             THEN [lines |-> Append(st.lines, st.current_line), current_line |-> word]
             ELSE [lines |-> Append(st.lines, word), current_line |-> st.current_line]

WrapWord_StrictlyLess(st, word, f, W) ==
    LET test_line == st.current_line
                       \o (IF st.current_line # <<>> THEN <<SP>> ELSE <<>>)
                       \o word
    IN  IF TextWidth(test_line, f) < W
        THEN [lines |-> st.lines, current_line |-> test_line]
        ELSE IF st.current_line # <<>>
             THEN [lines |-> Append(st.lines, st.current_line), current_line |-> word]
             ELSE [lines |-> Append(st.lines, word), current_line |-> st.current_line]

WrapWord_SkipsLongWord(st, word, f, W) ==
    LET test_line == st.current_line
                       \o (IF st.current_line # <<>> THEN <<SP>> ELSE <<>>)
                       \o word
    IN  IF TextWidth(test_line, f) <= W
        THEN [lines |-> st.lines, current_line |-> test_line]
        ELSE IF st.current_line # <<>>
             THEN [lines |-> Append(st.lines, st.current_line), current_line |-> word]
             ELSE [lines |-> st.lines, current_line |-> st.current_line]

\* One iteration of "for word in words".
WrapWord(st, word, f, W) ==
    LET test_line == st.current_line
                       \o (IF st.current_line # <<>> THEN <<SP>> ELSE <<>>)
                       \o word
    IN  IF TextWidth(test_line, f) <= W
        THEN [lines |-> st.lines, current_line |-> test_line]
        ELSE IF st.current_line # <<>>
             THEN [lines |-> Append(st.lines, st.current_line), current_line |-> word]
             ELSE [lines |-> Append(st.lines, word), current_line |-> st.current_line]

\* Variant: the current line is appended even when it is empty.
WrapFlush_Always(st) == Append(st.lines, st.current_line)

\* "if current_line: lines.append(current_line)"
WrapFlush(st) ==
    IF st.current_line # <<>> THEN Append(st.lines, st.current_line) ELSE st.lines

\* The outcomes of the three ImageFont.truetype loads (title, subtitle,
\* number size): TRUE when the load succeeds.
FontLoads == [title : BOOLEAN, subtitle : BOOLEAN, number : BOOLEAN]

AllLoaded == [title |-> TRUE, subtitle |-> TRUE, number |-> TRUE]
NoneLoaded == [title |-> FALSE, subtitle |-> FALSE, number |-> FALSE]

None == [none |-> TRUE]

\* The render variables while only wrap_text runs.
RenderUnused ==
    /\ format_type = "landscape"
    /\ background_type = "color"
    /\ slide_data = None
    /\ slide_number = 0
    /\ font_available = NoneLoaded
    /\ image = None
    /\ layout = None
    /\ rendered = None
    /\ earlier = None
    /\ rpc = "unused"

(* The variables of the other operations, in a run that does not use them. *)
AIUnused ==
    /\ pipe = "absent"
    /\ ai_call = None
    /\ ai_loaded = FALSE
    /\ ai_count = 0

StockUnused ==
    /\ stock_topic = <<>>
    /\ stock_size = <<0, 0>>
    /\ stock_idx = 0
    /\ stock_log = <<>>
    /\ stock_result = None
    /\ stock_pc = "unused"

ContentUnused ==
    /\ topic = <<>>
    /\ num_slides = 0
    /\ clean_topic = <<>>
    /\ matched_key = None
    /\ slides = <<>>
    /\ cpc = "unused"

GenUnused ==
    /\ entry = "unused"
    /\ request = None
    /\ generator_available = FALSE
    /\ files = {}
    /\ dirs = {}
    /\ store0 = None
    /\ keep_latest = 0
    /\ to_remove = <<>>
    /\ remove_failed = {}
    /\ slides_content = <<>>
    /\ generated = <<>>
    /\ now = 0
    /\ reached = {}
    /\ response = None
    /\ gpc = "unused"

CallsUnused == calls = <<>>

OverlayUnused == heap = <<>> /\ ov = None

WrapInit ==
    /\ RenderUnused
    /\ AIUnused /\ StockUnused /\ ContentUnused /\ GenUnused /\ CallsUnused /\ OverlayUnused
    /\ \/ /\ text \in Texts
          /\ font \in SmallFonts
          /\ max_width \in 0..MaxW
       \/ /\ text = ScenarioTitle
          /\ font \in ScenarioFonts
          /\ max_width = ScenarioBudget
    /\ words = <<>>
    /\ widx = 0
    /\ lines = <<>>
    /\ current_line = <<>>
    /\ wrapped = <<>>
    /\ wpc = "split"

WrapSplit ==
    /\ wpc = "split"
    /\ words' = Split(text, SP)
    /\ widx' = 1
    /\ lines' = <<>>
    /\ current_line' = <<>>
    /\ wpc' = "loop"
    /\ UNCHANGED <<text, font, max_width, wrapped, notWrap>>

TestLine == current_line \o (IF current_line # <<>> THEN <<SP>> ELSE <<>>) \o words[widx]

WrapIterate ==
    LET st == WrapWord([lines |-> lines, current_line |-> current_line],
                       words[widx], font, max_width)
    IN  /\ lines' = st.lines
        /\ current_line' = st.current_line
        /\ widx' = widx + 1
        /\ UNCHANGED <<text, font, max_width, words, wrapped, wpc, notWrap>>

WrapFit ==
    /\ wpc = "loop"
    /\ widx <= Len(words)
    /\ TextWidth(TestLine, font) <= max_width
    /\ WrapIterate

WrapBreak ==
    /\ wpc = "loop"
    /\ widx <= Len(words)
    /\ TextWidth(TestLine, font) > max_width
    /\ current_line # <<>>
    /\ WrapIterate

WrapForce ==
    /\ wpc = "loop"
    /\ widx <= Len(words)
    /\ TextWidth(TestLine, font) > max_width
    /\ current_line = <<>>
    /\ WrapIterate

WrapReturn ==
    /\ wpc = "loop"
    /\ widx > Len(words)
    /\ lines' = WrapFlush([lines |-> lines, current_line |-> current_line])
    /\ wrapped' = Join(lines', NL)
    /\ wpc' = "done"
    /\ UNCHANGED <<text, font, max_width, words, widx, current_line, notWrap>>

WrapNext == WrapSplit \/ WrapFit \/ WrapBreak \/ WrapForce \/ WrapReturn

SpecWrap == WrapInit /\ [][WrapNext]_vars

(* --------------------------- add_text_overlay -------------------------- *)
\* wrap_text as one call: the loop over the words, the final flush, the join.
RECURSIVE WrapFold(_, _, _, _)
WrapFold(ws, st, f, W) ==
    IF ws = <<>> THEN st
    ELSE WrapFold(Tail(ws), WrapWord(st, Head(ws), f, W), f, W)

WrapText(t, f, W) ==
    Join(WrapFlush(WrapFold(Split(t, SP), [lines |-> <<>>, current_line |-> <<>>], f, W)), NL)

FormatKeys == {"landscape", "portrait"}
BackgroundKeys == {"color", "ai", "stock"}

FORMATS(ft) ==
    IF ft = "landscape" THEN [width |-> 1920, height |-> 1080]
                        ELSE [width |-> 1080, height |-> 1920]

\* "Adjust font sizes and margins based on format"
OverlaySizes(ft) ==
    IF ft = "portrait"
    THEN [title_size |-> 75, subtitle_size |-> 45, number_size |-> 100,
          margin |-> 60, text_margin |-> 100]
    ELSE [title_size |-> 70, subtitle_size |-> 42, number_size |-> 90,
          margin |-> 80, text_margin |-> 150]

\* Variant: each font falls back on its own.
LoadFonts_Mixed(cfg, available) ==
    [title    |-> IF available.title THEN [kind |-> "truetype", size |-> cfg.title_size]
                  ELSE [kind |-> "default", size |-> 0],
     subtitle |-> IF available.subtitle THEN [kind |-> "truetype", size |-> cfg.subtitle_size]
                  ELSE [kind |-> "default", size |-> 0],
     number   |-> IF available.number THEN [kind |-> "truetype", size |-> cfg.number_size]
                  ELSE [kind |-> "default", size |-> 0]]

\* The three font handles: the system face at the three sizes, or, when one
\* of the loads in the try block raises, the built-in default font for all.
LoadFonts(cfg, available) ==
    IF available.title /\ available.subtitle /\ available.number
    THEN [title    |-> [kind |-> "truetype", size |-> cfg.title_size],
          subtitle |-> [kind |-> "truetype", size |-> cfg.subtitle_size],
          number   |-> [kind |-> "truetype", size |-> cfg.number_size]]
    ELSE [title    |-> [kind |-> "default", size |-> 0],
          subtitle |-> [kind |-> "default", size |-> 0],
          number   |-> [kind |-> "default", size |-> 0]]

\* Advances of the system face in tenths of the point size.
FaceEm == [c \in Chars |-> CASE c = "a" -> 20 [] c = "b" -> 12 [] c = SP -> 4 [] OTHER -> 0]

\* The advance table of a font handle: the face scaled to the handle's size,
\* or the fixed-size default font.
FontTable(h) ==
    IF h.kind = "truetype"
    THEN [c \in Chars |-> (h.size * FaceEm[c]) \div 10]
    ELSE [c \in Chars |-> IF c = NL THEN 0 ELSE 6]

NoFont == [kind |-> "none", size |-> 0]

\* Image.alpha_composite(img.convert('RGBA'), Image.new('RGBA', size, (0, 0, 0, 100)))
DarkenOp ==
    [op |-> "darken", s |-> <<>>, x |-> 0, y |-> 0, font |-> NoFont,
     stroke_width |-> 0, alpha |-> 100]

\* draw.text((x, y), s, font=f, fill="white", stroke_width=sw, stroke_fill="black")
TextOp(s, x, y, f, sw) ==
    [op |-> "text", s |-> s, x |-> x, y |-> y, font |-> f,
     stroke_width |-> sw, alpha |-> 255]

RECURSIVE Decimal(_)
Decimal(n) ==
    IF n < 10 THEN <<ToString(n)>> ELSE Decimal(n \div 10) \o <<ToString(n % 10)>>

\* Variant: the drawing goes on over the canvas of an earlier render.
StaleLayers(img) == IF earlier = None THEN img.layers ELSE earlier.output.layers

\* image.copy(): the drawing starts from the pixels of the input image.
CopiedLayers(img) == img.layers

\* Variant: one division of the difference instead of two divisions.
TitleStartY_OneDivision(height, total_title_height) ==
    ((height - total_title_height) \div 2) - 30

TitleStartY(height, total_title_height) ==
    (height \div 2) - (total_title_height \div 2) - 30

\* Variant: the height of the title block is left out.
SubtitleStartY_NoHeight(title_start_y, total_title_height) == title_start_y + 50

SubtitleStartY(title_start_y, total_title_height) ==
    title_start_y + total_title_height + 50

LineX(width, line_width) == (width - line_width) \div 2

MaxTextWidth(width, text_margin) == width - (text_margin * 2)

DrawLines(ls, f, width, start_y, line_height, sw) ==
    [i \in 1..Len(ls) |->
        TextOp(ls[i], LineX(width, TextWidth(ls[i], FontTable(f))),
               start_y + ((i - 1) * line_height), f, sw)]

\* The wrapping and the vertical placement add_text_overlay computes.
Layout(img, sd, ft, available) ==
    LET width  == img.size[1]
        height == img.size[2]
        cfg    == OverlaySizes(ft)
        fonts  == LoadFonts(cfg, available)
        max_title_width == MaxTextWidth(width, cfg.text_margin)
        title_lines == Split(WrapText(sd.title, FontTable(fonts.title), max_title_width), NL)
        title_line_height == cfg.title_size + 10
        total_title_height == Len(title_lines) * title_line_height
        title_start_y == TitleStartY(height, total_title_height)
        max_subtitle_width == MaxTextWidth(width, cfg.text_margin)
        subtitle_lines ==
            Split(WrapText(sd.subtitle, FontTable(fonts.subtitle), max_subtitle_width), NL)
    IN  [max_title_width |-> max_title_width,
         title_lines |-> title_lines,
         title_line_height |-> title_line_height,
         total_title_height |-> total_title_height,
         title_start_y |-> title_start_y,
         max_subtitle_width |-> max_subtitle_width,
         subtitle_lines |-> subtitle_lines,
         subtitle_line_height |-> cfg.subtitle_size + 8,
         subtitle_start_y |-> SubtitleStartY(title_start_y, total_title_height)]

AddTextOverlay(img, sd, n, ft, available) ==
    LET cfg   == OverlaySizes(ft)
        fonts == LoadFonts(cfg, available)
        lay   == Layout(img, sd, ft, available)
    IN  [size   |-> img.size,
         mode   |-> "RGB",
         base   |-> img.base,
         layers |-> CopiedLayers(img)
                      \o <<DarkenOp>>
                      \o <<TextOp(Decimal(n), cfg.margin, cfg.margin, fonts.number, 3)>>
                      \o DrawLines(lay.title_lines, fonts.title, img.size[1],
                                   lay.title_start_y, lay.title_line_height, 4)
                      \o DrawLines(lay.subtitle_lines, fonts.subtitle, img.size[1],
                                   lay.subtitle_start_y, lay.subtitle_line_height, 2)]

(* ----------------------------- backgrounds ----------------------------- *)
\* create_color_background: a gradient of colors[slide_index % 8].
ColorBackground(width, height, slide_index) ==
    [size |-> <<width, height>>, mode |-> "RGB",
     base |-> <<"color", slide_index % 8>>, layers |-> <<>>]

\* The image the diffusion pipeline returns for height=height, width=width.
AIBackground(width, height) ==
    [size |-> <<width, height>>, mode |-> "RGB", base |-> <<"ai", 0>>, layers |-> <<>>]

\* The photo the stock service answers with; its size is the service's.
FetchedSizes(width, height) == {<<width, height>>, <<200, 200>>}

\* Image.open(temp_path).convert('RGB') under the dark overlay, not resized.
StockBackground(size) ==
    [size |-> size, mode |-> "RGB", base |-> <<"stock", 0>>, layers |-> <<DarkenOp>>]

(* --------------------------- rendering a slide ------------------------- *)
LongWord == [i \in 1..12 |-> "a"]

RenderTitles ==
    { <<>>, <<"a", SP, "b">>, ScenarioTitle,
      <<"b", SP>> \o LongWord \o <<SP, "b">> }

RenderSubtitles == { <<"b", SP, "a">>, ScenarioTitle }

WrapUnused ==
    /\ text = <<>>
    /\ font = FaceEm
    /\ max_width = 0
    /\ words = <<>>
    /\ widx = 0
    /\ lines = <<>>
    /\ current_line = <<>>
    /\ wrapped = <<>>
    /\ wpc = "unused"

\* generate_listicle_images is entered with a valid format and background
\* type, which stay the same for all slides of the call, on a host where the
\* font loads in fonts succeed or fail.
RenderStart(fonts) ==
    /\ WrapUnused
    /\ AIUnused /\ StockUnused /\ ContentUnused /\ GenUnused /\ CallsUnused /\ OverlayUnused
    /\ format_type \in FormatKeys
    /\ background_type \in BackgroundKeys
    /\ font_available \in fonts
    /\ slide_data = None
    /\ slide_number = 0
    /\ image = None
    /\ layout = None
    /\ rendered = None
    /\ earlier = None
    /\ rpc = "idle"

RenderInit == RenderStart(FontLoads)

\* The host has the system font file or has it not.
RepeatInit == RenderStart({AllLoaded, NoneLoaded})

\* One iteration of the slide loop starts: its slide, number and settings.
StartSlide ==
    /\ rpc = "idle"
    /\ slide_data' \in [title : RenderTitles, subtitle : RenderSubtitles]
    /\ slide_number' \in 1..MaxSlides
    /\ image' = None
    /\ rpc' = "background"
    /\ UNCHANGED <<format_type, background_type, font_available, layout, rendered,
                   earlier, notRender>>

BackgroundDone(img) ==
    /\ image' = img
    /\ rpc' = "overlay"
    /\ UNCHANGED <<format_type, background_type, slide_data, slide_number,
                   font_available, layout, rendered, earlier, notRender>>

CreateColorBackground ==
    /\ rpc = "background"
    /\ background_type = "color"
    /\ BackgroundDone(ColorBackground(FORMATS(format_type).width,
                                      FORMATS(format_type).height, slide_number - 1))

CreateAIBackground ==
    /\ rpc = "background"
    /\ background_type = "ai"
    /\ BackgroundDone(AIBackground(FORMATS(format_type).width, FORMATS(format_type).height))

CreateAIBackgroundFailed ==
    /\ rpc = "background"
    /\ background_type = "ai"
    /\ BackgroundDone(ColorBackground(FORMATS(format_type).width,
                                      FORMATS(format_type).height, 0))

CreateStockBackground ==
    /\ rpc = "background"
    /\ background_type = "stock"
    /\ \E size \in FetchedSizes(FORMATS(format_type).width, FORMATS(format_type).height) :
          BackgroundDone(StockBackground(size))

CreateStockBackgroundFailed ==
    /\ rpc = "background"
    /\ background_type = "stock"
    /\ BackgroundDone(ColorBackground(FORMATS(format_type).width,
                                      FORMATS(format_type).height, 0))

Overlay ==
    /\ rpc = "overlay"
    /\ layout' = Layout(image, slide_data, format_type, font_available)
    /\ rendered' = AddTextOverlay(image, slide_data, slide_number, format_type,
                                  font_available)
    /\ rpc' = "done"
    /\ UNCHANGED <<format_type, background_type, slide_data, slide_number,
                   font_available, image, earlier, notRender>>

RenderInput ==
    [image |-> image, slide_data |-> slide_data, slide_number |-> slide_number,
     format_type |-> format_type, font_available |-> font_available]

\* The slide is saved and the loop goes on to the next slide.
SlideReturned ==
    /\ rpc = "done"
    /\ rpc' = "idle"
    /\ slide_data' = None
    /\ slide_number' = 0
    /\ image' = None
    /\ layout' = None
    /\ rendered' = None
    /\ UNCHANGED <<format_type, background_type, font_available, notRender>>

FinishSlide ==
    /\ SlideReturned
    /\ UNCHANGED earlier

\* As FinishSlide, and the call is kept for comparison with later calls.
FinishSlideObserved ==
    /\ SlideReturned
    /\ earlier' = [input |-> RenderInput, output |-> rendered]

RenderNext ==
    \/ StartSlide
    \/ CreateColorBackground
    \/ CreateAIBackground
    \/ CreateAIBackgroundFailed
    \/ CreateStockBackground
    \/ CreateStockBackgroundFailed
    \/ Overlay
    \/ FinishSlide

SpecRender == RenderInit /\ [][RenderNext]_vars

\* Renders one after another, an earlier one kept for comparison.
RepeatNext == RenderNext \/ FinishSlideObserved

SpecRepeat == RepeatInit /\ [][RepeatNext]_vars

(* ------------------------- create_ai_background ------------------------ *)
MaxCalls == 3

\* The visual themes generate_content_for_topic hands out, in order.
themes ==
    <<"modern blue professional", "vibrant energetic orange", "calm trustworthy green",
      "elegant sophisticated purple", "warm inviting gold", "cool contemporary teal",
      "bold confident red", "sleek minimal gray">>

\* The attribute create_ai_background.pipe is "absent", "loaded" (the pipeline
\* as from_pretrained returned it) or "on_device" (moved to the device).
\* One call of create_ai_background with pipe attribute p.  loads, moves and
\* generates say whether from_pretrained, .to("mps") and the pipeline call
\* return (TRUE) or raise (FALSE).  The attribute is assigned as soon as
\* from_pretrained returns, before the move to the device is tried.
AICall(p, width, height, loads, moves, generates) ==
    LET color == ColorBackground(width, height, 0)
        made == IF generates THEN AIBackground(width, height) ELSE color
    IN  IF p = "absent"
        THEN IF ~loads
             THEN [pipe |-> "absent", load |-> "load_failed", image |-> color]
             ELSE IF ~moves
                  THEN [pipe |-> "loaded", load |-> "move_failed", image |-> color]
                  ELSE [pipe |-> "on_device", load |-> "ok", image |-> made]
        ELSE [pipe |-> p, load |-> "skipped", image |-> made]

AIInit ==
    /\ WrapUnused /\ RenderUnused
    /\ StockUnused /\ ContentUnused /\ GenUnused /\ CallsUnused /\ OverlayUnused
    /\ pipe = "absent"
    /\ ai_call = None
    /\ ai_loaded = FALSE
    /\ ai_count = 0

\* A call of create_ai_background(width, height, slide_data); ai_call keeps
\* what the call saw and did, ai_loaded whether a load has fully succeeded.
AIStep(loads, moves, generates) ==
    /\ ai_count < MaxCalls
    /\ \E ft \in FormatKeys, t \in DOMAIN themes :
          LET r == AICall(pipe, FORMATS(ft).width, FORMATS(ft).height,
                          loads, moves, generates)
          IN  /\ pipe' = r.pipe
              /\ ai_call' = [theme |-> themes[t],
                             size |-> <<FORMATS(ft).width, FORMATS(ft).height>>,
                             cached |-> pipe # "absent",
                             loaded_before |-> ai_loaded,
                             after_failure |-> /\ ai_call # None
                                               /\ ai_call.load \in {"load_failed",
                                                                    "move_failed"},
                             load |-> r.load,
                             image |-> r.image]
              /\ ai_loaded' = (ai_loaded \/ r.load = "ok")
    /\ ai_count' = ai_count + 1
    /\ UNCHANGED notAI

AILoadFails == pipe = "absent" /\ AIStep(FALSE, FALSE, FALSE)

AIMoveFails == pipe = "absent" /\ AIStep(TRUE, FALSE, FALSE)

AIGenerates == AIStep(TRUE, TRUE, TRUE)

AIGenerationFails == AIStep(TRUE, TRUE, FALSE)

AINext == AILoadFails \/ AIMoveFails \/ AIGenerates \/ AIGenerationFails

SpecAI == AIInit /\ [][AINext]_vars

(* ------------------------ create_stock_background ---------------------- *)
LowerCase == <<"a", "b", "c", "d", "e", "f", "g", "h", "i", "j", "k", "l", "m",
               "n", "o", "p", "q", "r", "s", "t", "u", "v", "w", "x", "y", "z">>

UpperCase == <<"A", "B", "C", "D", "E", "F", "G", "H", "I", "J", "K", "L", "M",
               "N", "O", "P", "Q", "R", "S", "T", "U", "V", "W", "X", "Y", "Z">>

\* str.lower()
Lower(s) ==
    [i \in DOMAIN s |->
        IF \E k \in DOMAIN UpperCase : UpperCase[k] = s[i]
        THEN LowerCase[CHOOSE k \in DOMAIN UpperCase : UpperCase[k] = s[i]]
        ELSE s[i]]

\* s.startswith(prefix)
StartsWith(s, prefix) ==
    Len(s) >= Len(prefix) /\ SubSeq(s, 1, Len(prefix)) = prefix

\* s.replace(old, new): every occurrence, left to right, not overlapping.
RECURSIVE Replace(_, _, _)
Replace(s, old, new) ==
    IF Len(s) < Len(old) THEN s
    ELSE IF StartsWith(s, old)
         THEN new \o Replace(SubSeq(s, Len(old) + 1, Len(s)), old, new)
         ELSE <<s[1]>> \o Replace(Tail(s), old, new)

\* needle in s
Contains(s, needle) ==
    \E i \in 0..(Len(s) - Len(needle)) : SubSeq(s, i + 1, i + Len(needle)) = needle


\* "top ", "best ", "ultimate ", "essential "
Prefixes ==
    <<<<"t", "o", "p", " ">>,
      <<"b", "e", "s", "t", " ">>,
      <<"u", "l", "t", "i", "m", "a", "t", "e", " ">>,
      <<"e", "s", "s", "e", "n", "t", "i", "a", "l", " ">>>>

\* keywords: the lowered topic without any "top ", "best ", "ultimate ", "essential ".
Keywords(t) ==
    Replace(Replace(Replace(Replace(Lower(t), Prefixes[1], <<>>), Prefixes[2], <<>>),
                    Prefixes[3], <<>>), Prefixes[4], <<>>)

\* search_terms, in the order they are tried.
SearchTerms(t) ==
    <<Keywords(t) \o <<" ", "a", "b", "s", "t", "r", "a", "c", "t">>,
      Keywords(t) \o <<" ", "p", "r", "o", "f", "e", "s", "s", "i", "o", "n", "a", "l">>,
      <<"g", "r", "a", "d", "i", "e", "n", "t", " ", "a", "b", "s", "t", "r", "a", "c", "t">>,
      <<"m", "i", "n", "i", "m", "a", "l", " ", "p", "r", "o", "f", "e", "s", "s", "i", "o", "n", "a", "l">>,
      <<"b", "u", "s", "i", "n", "e", "s", "s", " ", "b", "a", "c", "k", "g", "r", "o", "u", "n", "d">>>>

\* What one pass of the loop body can do: the service answers other than 200,
\* or a statement of the body raises (the request, the temp file write, the
\* decoding, the temp file removal), or the body returns the image.
QueryFailures == {"non200", "fetch_raises", "store_raises", "decode_raises", "remove_raises"}

StockTopics == {<<"T", "o", "p", " ", "a">>, <<"b", " ", "b", "e", "s", "t", " ">>, <<"l", "a", "p", "t", "o", "p", " ", "b">>, <<"a", "b">>}

StockInit ==
    /\ WrapUnused /\ RenderUnused
    /\ AIUnused /\ ContentUnused /\ GenUnused /\ CallsUnused /\ OverlayUnused
    /\ stock_topic \in StockTopics
    /\ \E ft \in FormatKeys : stock_size = <<FORMATS(ft).width, FORMATS(ft).height>>
    /\ stock_idx = 0
    /\ stock_log = <<>>
    /\ stock_result = None
    /\ stock_pc = "called"

\* keywords and search_terms are built; the loop starts at the first term.
StockSetup ==
    /\ stock_pc = "called"
    /\ stock_idx' = 1
    /\ stock_pc' = "query"
    /\ UNCHANGED <<stock_topic, stock_size, stock_log, stock_result, notStock>>

\* The loop body for search_terms[stock_idx] does not return: continue.
StockQueryFails ==
    /\ stock_pc = "query"
    /\ stock_idx <= Len(SearchTerms(stock_topic))
    /\ \E o \in QueryFailures :
          stock_log' = Append(stock_log,
                              [term |-> SearchTerms(stock_topic)[stock_idx], outcome |-> o])
    /\ stock_idx' = stock_idx + 1
    /\ UNCHANGED <<stock_topic, stock_size, stock_result, stock_pc, notStock>>

\* The loop body for search_terms[stock_idx] returns the darkened photo.
StockQueryReturns ==
    /\ stock_pc = "query"
    /\ stock_idx <= Len(SearchTerms(stock_topic))
    /\ stock_log' = Append(stock_log,
                           [term |-> SearchTerms(stock_topic)[stock_idx], outcome |-> "ok"])
    /\ \E size \in FetchedSizes(stock_size[1], stock_size[2]) :
          stock_result' = StockBackground(size)
    /\ stock_pc' = "returned"
    /\ UNCHANGED <<stock_topic, stock_size, stock_idx, notStock>>

\* Every term was tried: the color background.
StockAllFailed ==
    /\ stock_pc = "query"
    /\ stock_idx > Len(SearchTerms(stock_topic))
    /\ stock_result' = ColorBackground(stock_size[1], stock_size[2], 0)
    /\ stock_pc' = "returned"
    /\ UNCHANGED <<stock_topic, stock_size, stock_idx, stock_log, notStock>>

StockNext == StockSetup \/ StockQueryFails \/ StockQueryReturns \/ StockAllFailed

SpecStock == StockInit /\ [][StockNext]_vars

(* ---------------------- generate_content_for_topic --------------------- *)
MaxN == 9

Digits == {"0", "1", "2", "3", "4", "5", "6", "7", "8", "9"}

\* for prefix in [...]: if startswith(prefix): replace(prefix, "", 1); break
RECURSIVE StripPrefix(_, _)
StripPrefix(s, i) ==
    IF i > Len(Prefixes) THEN s
    ELSE IF StartsWith(s, Prefixes[i])
         THEN SubSeq(s, Len(Prefixes[i]) + 1, Len(s))
         ELSE StripPrefix(s, i + 1)

RECURSIVE DropWhile(_, _)
DropWhile(s, set) ==
    IF s # <<>> /\ Head(s) \in set THEN DropWhile(Tail(s), set) ELSE s

\* re.sub(r'^\d+\s*', '', s): leading digits and the whitespace after them.
StripNumber(s) ==
    IF s # <<>> /\ Head(s) \in Digits THEN DropWhile(DropWhile(s, Digits), Whitespace)
    ELSE s

CleanTopic(t) == StripNumber(StripPrefix(Lower(t), 1))

\* The content database, in declaration order.
content_library ==
  <<
     [key |-> <<"p", "r", "o", "d", "u", "c", "t", "i", "v", "i", "t", "y">>,
      content |-> <<
          [title |-> "Time Blocking", subtitle |-> <<"Schedule your day in focused chunks">>],
          [title |-> "The 2-Minute Rule", subtitle |-> <<"If it takes less than 2 minutes, do it now">>],
          [title |-> "Eliminate Distractions", subtitle |-> <<"Turn off notifications during deep work">>],
          [title |-> "Batch Similar Tasks", subtitle |-> <<"Group emails, calls, and admin together">>],
          [title |-> "Take Regular Breaks", subtitle |-> <<"Use the Pomodoro Technique for focus">>]>>],
     [key |-> <<"m", "a", "r", "k", "e", "t", "i", "n", "g">>,
      content |-> <<
          [title |-> "Know Your Audience", subtitle |-> <<"Create detailed buyer personas">>],
          [title |-> "Content is King", subtitle |-> <<"Provide value before asking for anything">>],
          [title |-> "Social Proof Works", subtitle |-> <<"Show testimonials and reviews">>],
          [title |-> "Test Everything", subtitle |-> <<"A/B test your headlines and calls-to-action">>],
          [title |-> "Follow Up Consistently", subtitle |-> <<"Most sales happen after 5+ touchpoints">>]>>],
     [key |-> <<"f", "i", "t", "n", "e", "s", "s">>,
      content |-> <<
          [title |-> "Start Small", subtitle |-> <<"Begin with 15-minute daily workouts">>],
          [title |-> "Consistency Beats Intensity", subtitle |-> <<"Regular exercise is better than sporadic">>],
          [title |-> "Track Your Progress", subtitle |-> <<"Use apps or journals to monitor gains">>],
          [title |-> "Mix Cardio & Strength", subtitle |-> <<"Combine both for optimal health">>],
          [title |-> "Rest is Essential", subtitle |-> <<"Recovery days prevent injury and burnout">>]>>],
     [key |-> <<"m", "o", "n", "e", "y">>,
      content |-> <<
          [title |-> "Emergency Fund First", subtitle |-> <<"Save 3-6 months of expenses">>],
          [title |-> "Automate Your Savings", subtitle |-> <<"Set up automatic transfers to savings">>],
          [title |-> "Invest Early & Often", subtitle |-> <<"Time in market beats timing the market">>],
          [title |-> "Track Your Spending", subtitle |-> <<"Know where every dollar goes">>],
          [title |-> "Increase Your Income", subtitle |-> <<"Focus on skills that pay more">>]>>],
     [key |-> <<"t", "r", "a", "v", "e", "l">>,
      content |-> <<
          [title |-> "Book Flights Early", subtitle |-> <<"Save money with advance booking">>],
          [title |-> "Pack Light", subtitle |-> <<"One carry-on makes everything easier">>],
          [title |-> "Research Local Culture", subtitle |-> <<"Respect customs and traditions">>],
          [title |-> "Keep Copies of Documents", subtitle |-> <<"Store digital and physical backups">>],
          [title |-> "Stay Connected", subtitle |-> <<"Get local SIM or international plan">>]>>],
     [key |-> <<"h", "e", "a", "l", "t", "h">>,
      content |-> <<
          [title |-> "Drink More Water", subtitle |-> <<"Aim for 8 glasses daily">>],
          [title |-> "Prioritize Sleep", subtitle |-> <<"7-9 hours for optimal health">>],
          [title |-> "Eat Whole Foods", subtitle |-> <<"Choose minimally processed options">>],
          [title |-> "Move Every Hour", subtitle |-> <<"Combat sedentary lifestyle">>],
          [title |-> "Manage Stress", subtitle |-> <<"Practice meditation or deep breathing">>]>>],
     [key |-> <<"c", "o", "o", "k", "i", "n", "g">>,
      content |-> <<
          [title |-> "Prep Ingredients First", subtitle |-> <<"Mise en place makes cooking smoother">>],
          [title |-> "Season at Every Step", subtitle |-> <<"Build layers of flavor">>],
          [title |-> "Sharp Knives Are Safer", subtitle |-> <<"Keep your knives properly maintained">>],
          [title |-> "Taste as You Cook", subtitle |-> <<"Adjust seasoning throughout">>],
          [title |-> "Keep It Simple", subtitle |-> <<"Master basics before complex dishes">>]>>],
     [key |-> <<"l", "e", "a", "r", "n", "i", "n", "g">>,
      content |-> <<
          [title |-> "Active Recall", subtitle |-> <<"Test yourself instead of re-reading">>],
          [title |-> "Spaced Repetition", subtitle |-> <<"Review material at increasing intervals">>],
          [title |-> "Teach Others", subtitle |-> <<"Explaining concepts reinforces knowledge">>],
          [title |-> "Practice Deliberately", subtitle |-> <<"Focus on weaknesses, not strengths">>],
          [title |-> "Take Breaks", subtitle |-> <<"Let your brain process and consolidate">>]>>]
  >>

\* The advice generated when no key matches; ct is the cleaned topic.
GenericContent(ct) ==
    <<
      [title |-> "Research First", subtitle |-> <<"Learn the fundamentals of ", ct>>],
      [title |-> "Start Small", subtitle |-> <<"Begin with simple ", ct, " practices">>],
      [title |-> "Be Consistent", subtitle |-> <<"Regular practice improves ", ct, " skills">>],
      [title |-> "Learn from Others", subtitle |-> <<"Find mentors in ", ct>>],
      [title |-> "Measure Progress", subtitle |-> <<"Track your ", ct, " improvements">>],
      [title |-> "Stay Updated", subtitle |-> <<"Keep learning new ", ct, " trends">>],
      [title |-> "Practice Daily", subtitle |-> <<"Make ", ct, " part of your routine">>],
      [title |-> "Get Feedback", subtitle |-> <<"Ask for input on your ", ct, " approach">>]
    >>

\* any(keyword in key for keyword in topic_keywords) or key in clean_topic
MatchesKey(key, ct) ==
    \/ \E k \in DOMAIN WsWords(ct) : Contains(key, WsWords(ct)[k])
    \/ Contains(ct, key)

RECURSIVE FindContent_LastWins(_, _)
FindContent_LastWins(i, ct) ==
    IF i > Len(content_library) THEN 0
    ELSE IF FindContent_LastWins(i + 1, ct) # 0 THEN FindContent_LastWins(i + 1, ct)
    ELSE IF MatchesKey(content_library[i].key, ct) THEN i
    ELSE 0

\* The loop over content_library.items() from entry i on: the index of the
\* first entry that matches (break), 0 when none does.
RECURSIVE FindContent(_, _)
FindContent(i, ct) ==
    IF i > Len(content_library) THEN 0
    ELSE IF MatchesKey(content_library[i].key, ct) THEN i
    ELSE FindContent(i + 1, ct)

MatchedContent(k, ct) ==
    IF k = 0 THEN GenericContent(ct) ELSE content_library[k].content

BuildSlides_NoWrap(content, n) ==
    [i \in 1..(IF n > Len(content) THEN Len(content) ELSE n) |->
        [title |-> content[i].title,
         subtitle |-> content[i].subtitle,
         visual_theme |-> themes[((i - 1) % Len(themes)) + 1]]]

\* for i in range(num_slides): content i % len(matched_content), theme i % len(themes)
BuildSlides(content, n) ==
    [i \in 1..n |->
        [title |-> content[((i - 1) % Len(content)) + 1].title,
         subtitle |-> content[((i - 1) % Len(content)) + 1].subtitle,
         visual_theme |-> themes[((i - 1) % Len(themes)) + 1]]]

GenerateContentForTopic(t, n) ==
    BuildSlides(MatchedContent(FindContent(1, CleanTopic(t)), CleanTopic(t)), n)

ContentTopics ==
    {<<"T", "o", "p", " ", "5", " ", "m", "o", "n", "e", "y", " ", "h", "e", "a", "l", "t", "h", " ", "t", "i", "p", "s">>,
     <<"h", "e", "a", "l", "t", "h", " ", "m", "o", "n", "e", "y">>,
     <<"b", "e", "s", "t", " ", "a">>,
     <<"C", "o", "o", "k", "i", "n", "g">>,
     <<"1", "0", " ", " ", "l", "e", "a", "r", "n", " ", "f", "a", "s", "t">>,
     <<"g", "a", "r", "d", "e", "n", "i", "n", "g">>,
     <<>>,
     <<"t", "o", "p">>,
     <<"7">>,
     <<"E", "s", "s", "e", "n", "t", "i", "a", "l", " ", "t", "r", "a", "v", "e", "l">>,
     <<"p", "r", "o", "d", "u", "c", "t", "i", "v", "i", "t", "y", " ", "m", "a", "r", "k", "e", "t", "i", "n", "g">>,
     <<"u", "l", "t", "i", "m", "a", "t", "e", " ", "f", "i", "t", "n", "e", "s", "s">>,
     <<"x", "y", "z", " ", "q">>,
     <<"b", "e", "s", "t", " ", "t", "o", "p", " ", "m", "o", "n", "e", "y">>,
     <<"f", "i", "t">>,
     <<"3", "d", " ", "a", "r", "t">>}

ContentInit ==
    /\ WrapUnused /\ RenderUnused
    /\ AIUnused /\ StockUnused /\ GenUnused /\ CallsUnused /\ OverlayUnused
    /\ topic \in ContentTopics
    /\ num_slides \in 0..MaxN
    /\ clean_topic = <<>>
    /\ matched_key = None
    /\ slides = <<>>
    /\ cpc = "called"

ContentClean ==
    /\ cpc = "called"
    /\ clean_topic' = CleanTopic(topic)
    /\ cpc' = "cleaned"
    /\ UNCHANGED <<topic, num_slides, matched_key, slides, notContent>>

\* The loop breaks at a library entry.
ContentMatch ==
    /\ cpc = "cleaned"
    /\ FindContent(1, clean_topic) # 0
    /\ matched_key' = FindContent(1, clean_topic)
    /\ cpc' = "matched"
    /\ UNCHANGED <<topic, num_slides, clean_topic, slides, notContent>>

\* The loop ends without a match: generic advice.
ContentFallback ==
    /\ cpc = "cleaned"
    /\ FindContent(1, clean_topic) = 0
    /\ matched_key' = 0
    /\ cpc' = "matched"
    /\ UNCHANGED <<topic, num_slides, clean_topic, slides, notContent>>

ContentBuild ==
    /\ cpc = "matched"
    /\ slides' = BuildSlides(MatchedContent(matched_key, clean_topic), num_slides)
    /\ cpc' = "returned"
    /\ UNCHANGED <<topic, num_slides, clean_topic, matched_key, notContent>>

ContentNext == ContentClean \/ ContentMatch \/ ContentFallback \/ ContentBuild

SpecContent == ContentInit /\ [][ContentNext]_vars

(* ----------------------------- the file store -------------------------- *)
MaxKeep == 2
MaxGen == 2
MaxTicks == 1

\* The default of cleanup_old_images(output_dir, keep_latest=10).
KeepLatest == 10

\* /generate accepts 1 to 10 slides.
SlideLimit == 10

\* int(time.time()) when the run starts; the files already stored are older.
StartTime == 20

\* s.endswith(suffix)
EndsWith(s, suffix) ==
    Len(s) >= Len(suffix) /\ SubSeq(s, Len(s) - Len(suffix) + 1, Len(s)) = suffix

\* f"{n:02d}"
Pad2(n) == IF n < 10 THEN <<"0">> \o Decimal(n) ELSE Decimal(n)

FormatChars(ft) == IF ft = "landscape" THEN <<"l", "a", "n", "d", "s", "c", "a", "p", "e">> ELSE <<"p", "o", "r", "t", "r", "a", "i", "t">>

\* topic.replace(' ', '_').replace(',', '').replace(':', '').lower()
FileTopic(t) ==
    Lower(Replace(Replace(Replace(t, <<" ">>, <<"_">>), <<",">>, <<>>), <<":">>, <<>>))

\* f"slide_{i+1:02d}_{clean_topic}_{format_type}_{timestamp}.png", i from 0
SlideFilename(i, t, ft, timestamp) ==
    <<"s", "l", "i", "d", "e", "_">> \o Pad2(i + 1) \o <<"_">> \o FileTopic(t) \o <<"_">> \o FormatChars(ft)
       \o <<"_">> \o Decimal(timestamp) \o <<".", "p", "n", "g">>

\* f"{topic.replace(' ', '_').lower()}_{format_type}.zip"
ZipFilename(t, ft) ==
    Lower(Replace(t, <<" ">>, <<"_">>)) \o <<"_">> \o FormatChars(ft) \o <<".", "z", "i", "p">>

\* A stored file: its directory, its name, its modification time and what it
\* holds (the slide saved into it; nothing for a file the run found).
NoSlide == [slide_number |-> 0, title |-> "", background |-> "none"]

StoredFile(dir, name, mtime, content) ==
    [dir |-> dir, name |-> name, mtime |-> mtime, content |-> content]

PathOf(f) == <<f.dir, f.name>>

\* glob.glob(os.path.join(output_dir, "*.png"))
Glob(fs, dir) == {f \in fs : f.dir = dir /\ EndsWith(f.name, <<".", "p", "n", "g">>)}

\* open(path, "wb") and write: the path's old file, if any, is replaced.
Save(fs, f) == {g \in fs : PathOf(g) # PathOf(f)} \cup {f}

\* os.remove(path)
Remove(fs, path) == {g \in fs : PathOf(g) # path}

\* image_files.sort(key=getmtime, reverse=True): the orders the sort can give;
\* files of equal time come in the order glob listed them, which is any.
RECURSIVE NewestFirst(_)
NewestFirst(fs) ==
    IF fs = {} THEN {<<>>}
    ELSE UNION {{<<f>> \o rest : rest \in NewestFirst(fs \ {f})} :
                   f \in {g \in fs : \A h \in fs : g.mtime >= h.mtime}}

FilesToRemove_Newest(order, keep) == SubSeq(order, 1, Len(order) - keep)

\* files_to_remove = image_files[keep_latest:]
FilesToRemove(order, keep) == SubSeq(order, keep + 1, Len(order))

OldFile(dir, k, ext, mtime) == StoredFile(dir, <<"o">> \o Decimal(k) \o ext, mtime, NoSlide)

EmptyStore == [files |-> {}, dirs |-> {}]

\* Three pictures, two of them of the same age, and a text file.
SmallStore ==
    [files |-> {OldFile("landscape", 1, <<".", "p", "n", "g">>, 1), OldFile("landscape", 2, <<".", "p", "n", "g">>, 1),
                OldFile("landscape", 3, <<".", "p", "n", "g">>, 2), OldFile("landscape", 4, <<".", "t", "x", "t">>, 1)},
     dirs |-> {"landscape"}]

\* Twelve pictures per format, the second and third of the same age, and a
\* text file older than all of them.
BigStore ==
    [files |-> {OldFile(d, k, <<".", "p", "n", "g">>, IF k = 3 THEN 2 ELSE k) :
                   d \in FormatKeys, k \in 1..(KeepLatest + 2)}
               \cup {OldFile(d, 0, <<".", "t", "x", "t">>, 0) : d \in FormatKeys},
     dirs |-> FormatKeys]

(* ---------------- /generate and generate_listicle_images --------------- *)
BlankTopic == <<" ", " ">>

GenTopics == {BlankTopic, <<"A", " ", "b">>, <<"Z", "q", ":", " ", "x", ",", " ", "w">>}

\* The requests: every field valid or not, and two requests for many slides.
Requests ==
    [topic : GenTopics,
     format_type : FormatKeys \cup {"square"},
     background_type : BackgroundKeys \cup {"video"},
     num_slides : {0, 1, MaxGen, SlideLimit + 1}]
    \cup {[topic |-> t, format_type |-> "landscape", background_type |-> "color",
           num_slides |-> MaxN] : t \in GenTopics \ {BlankTopic}}

\* not topic.strip()
Blank(t) == DropWhile(t, Whitespace) = <<>>

Response(status, raised, paths) == [status |-> status, raised |-> raised, paths |-> paths]

\* The part of the state a call does not change.
genConst == <<entry, request, generator_available, store0>>

GenInit ==
    /\ WrapUnused /\ RenderUnused
    /\ AIUnused /\ StockUnused /\ ContentUnused /\ CallsUnused /\ OverlayUnused
    /\ entry \in {"http", "direct", "cleanup"}
    /\ \/ /\ entry = "http"
          /\ request \in {r \in Requests : r.num_slides # MaxN}
          /\ generator_available \in BOOLEAN
          /\ store0 \in {EmptyStore, BigStore}
          /\ keep_latest = 0
          /\ gpc = "request"
       \/ /\ entry = "direct"
          /\ request \in {r \in Requests : r.num_slides <= SlideLimit}
          /\ generator_available = TRUE
          /\ store0 \in {EmptyStore, BigStore}
          /\ keep_latest = 0
          /\ gpc = "engine"
       \/ /\ entry = "cleanup"
          /\ \E ft \in FormatKeys :
                request = [topic |-> <<>>, format_type |-> ft,
                           background_type |-> "color", num_slides |-> 0]
          /\ generator_available = TRUE
          /\ store0 \in {EmptyStore, SmallStore}
          /\ keep_latest \in 0..MaxKeep
          /\ gpc = "cleanup"
    /\ files = store0.files
    /\ dirs = store0.dirs
    /\ to_remove = <<>>
    /\ remove_failed = {}
    /\ slides_content = <<>>
    /\ generated = <<>>
    /\ now = StartTime
    /\ reached = {}
    /\ response = None

\* /generate without the generator module: 500, whatever the request.
HttpUnavailable ==
    /\ gpc = "request"
    /\ ~generator_available
    /\ response' = Response(500, "HTTPException", <<>>)
    /\ gpc' = "done"
    /\ UNCHANGED <<genConst, files, dirs, keep_latest, to_remove, remove_failed,
                   slides_content, generated, now, reached, notGen>>

InvalidRequest_BlankAccepted(r) ==
    \/ r.format_type \notin FormatKeys
    \/ r.background_type \notin BackgroundKeys
    \/ r.num_slides < 1
    \/ r.num_slides > SlideLimit

\* A request /generate answers 400.
InvalidRequest(r) ==
    \/ r.format_type \notin FormatKeys
    \/ r.background_type \notin BackgroundKeys
    \/ Blank(r.topic)
    \/ r.num_slides < 1
    \/ r.num_slides > SlideLimit

\* /generate: "Validate inputs".
HttpReject ==
    /\ gpc = "request"
    /\ generator_available
    /\ InvalidRequest(request)
    /\ response' = Response(400, "HTTPException", <<>>)
    /\ gpc' = "done"
    /\ UNCHANGED <<genConst, files, dirs, keep_latest, to_remove, remove_failed,
                   slides_content, generated, now, reached, notGen>>

\* /generate calls generate_listicle_images.
HttpAccept ==
    /\ gpc = "request"
    /\ generator_available
    /\ ~InvalidRequest(request)
    /\ gpc' = "engine"
    /\ UNCHANGED <<genConst, files, dirs, keep_latest, to_remove, remove_failed,
                   slides_content, generated, now, reached, response, notGen>>

\* What the caller gets when generate_listicle_images raises: the exception,
\* which /generate turns into a 500.
Raised(error) ==
    IF entry = "http" THEN Response(500, "HTTPException", <<>>)
    ELSE Response(0, error, <<>>)

\* generate_listicle_images: the two checks at its head.
EngineReject ==
    /\ gpc = "engine"
    /\ \/ request.format_type \notin FormatKeys
       \/ request.background_type \notin BackgroundKeys
    /\ response' = Raised("ValueError")
    /\ gpc' = "done"
    /\ UNCHANGED <<genConst, files, dirs, keep_latest, to_remove, remove_failed,
                   slides_content, generated, now, reached, notGen>>

\* The content, the output directory, and the call of cleanup_old_images.
EngineStart ==
    /\ gpc = "engine"
    /\ request.format_type \in FormatKeys
    /\ request.background_type \in BackgroundKeys
    /\ slides_content' = GenerateContentForTopic(request.topic, request.num_slides)
    /\ dirs' = dirs \cup {request.format_type}
    /\ keep_latest' = KeepLatest
    /\ reached' = reached \cup {"content", "makedirs"}
    /\ gpc' = "cleanup"
    /\ UNCHANGED <<genConst, files, to_remove, remove_failed, generated, now,
                   response, notGen>>

\* cleanup_old_images up to the removal loop.
CleanupGlob ==
    /\ gpc = "cleanup"
    /\ LET image_files == Glob(files, request.format_type)
       IN  IF Cardinality(image_files) <= keep_latest
           THEN /\ to_remove' = <<>>
                /\ gpc' = "cleaned"
           ELSE /\ \E order \in NewestFirst(image_files) :
                      to_remove' = FilesToRemove(order, keep_latest)
                /\ gpc' = "removing"
    /\ reached' = reached \cup {"cleanup"}
    /\ UNCHANGED <<genConst, files, dirs, keep_latest, remove_failed, slides_content,
                   generated, now, response, notGen>>

CleanupRemove ==
    /\ gpc = "removing"
    /\ to_remove # <<>>
    /\ files' = Remove(files, PathOf(Head(to_remove)))
    /\ to_remove' = Tail(to_remove)
    /\ UNCHANGED <<genConst, dirs, keep_latest, remove_failed, slides_content,
                   generated, now, reached, response, gpc, notGen>>

\* os.remove raises OSError: the file stays, the loop goes on.
CleanupRemoveFails ==
    /\ gpc = "removing"
    /\ to_remove # <<>>
    /\ remove_failed' = remove_failed \cup {PathOf(Head(to_remove))}
    /\ to_remove' = Tail(to_remove)
    /\ UNCHANGED <<genConst, files, dirs, keep_latest, slides_content, generated, now,
                   reached, response, gpc, notGen>>

CleanupDone ==
    /\ gpc = "removing"
    /\ to_remove = <<>>
    /\ gpc' = "cleaned"
    /\ UNCHANGED <<genConst, files, dirs, keep_latest, to_remove, remove_failed,
                   slides_content, generated, now, reached, response, notGen>>

\* A direct call of cleanup_old_images returns.
CleanupReturn ==
    /\ gpc = "cleaned"
    /\ entry = "cleanup"
    /\ response' = Response(0, "none", <<>>)
    /\ gpc' = "done"
    /\ UNCHANGED <<genConst, files, dirs, keep_latest, to_remove, remove_failed,
                   slides_content, generated, now, reached, notGen>>

\* The clock the timestamps are read from moves on.
Tick ==
    /\ gpc \in {"cleaned", "slides"}
    /\ entry # "cleanup"
    /\ now < StartTime + MaxTicks
    /\ now' = now + 1
    /\ UNCHANGED <<genConst, files, dirs, keep_latest, to_remove, remove_failed,
                   slides_content, generated, reached, response, gpc, notGen>>

\* What the background of a slide can turn out to be.
BackgroundKinds(bt) ==
    IF bt = "color" THEN {"color"} ELSE {bt, "color"}

\* One pass of the slide loop: background, overlay, save.  A stock photo is
\* written to ../temp first; a failed stock search may have got that far.
GenerateSlide ==
    /\ gpc \in {"cleaned", "slides"}
    /\ entry # "cleanup"
    /\ Len(generated) < Len(slides_content)
    /\ LET i == Len(generated)
           name == SlideFilename(i, request.topic, request.format_type, now)
       IN  /\ \E kind \in BackgroundKinds(request.background_type) :
                 files' = Save(files,
                               StoredFile(request.format_type, name, now,
                                          [slide_number |-> i + 1,
                                           title |-> slides_content[i + 1].title,
                                           background |-> kind]))
           /\ generated' = Append(generated, <<request.format_type, name>>)
    /\ \E temp \in BOOLEAN :
          /\ temp => request.background_type = "stock"
          /\ dirs' = IF temp THEN dirs \cup {"temp"} ELSE dirs
    /\ reached' = reached \cup {"background", "render", "write"}
    /\ gpc' = "slides"
    /\ UNCHANGED <<genConst, keep_latest, to_remove, remove_failed, slides_content,
                   now, response, notGen>>

\* image_with_text.save(filepath) raises.
SaveFails ==
    /\ gpc \in {"cleaned", "slides"}
    /\ entry # "cleanup"
    /\ Len(generated) < Len(slides_content)
    /\ reached' = reached \cup {"background", "render"}
    /\ response' = Raised("OSError")
    /\ gpc' = "done"
    /\ UNCHANGED <<genConst, files, dirs, keep_latest, to_remove, remove_failed,
                   slides_content, generated, now, notGen>>

\* return generated_images, to a direct caller.
EngineReturn ==
    /\ gpc \in {"cleaned", "slides"}
    /\ entry = "direct"
    /\ Len(generated) = Len(slides_content)
    /\ response' = Response(0, "none", generated)
    /\ gpc' = "done"
    /\ UNCHANGED <<genConst, files, dirs, keep_latest, to_remove, remove_failed,
                   slides_content, generated, now, reached, notGen>>

\* /generate after the engine returned: the ZIP in the outputs directory.
HttpRespond ==
    /\ gpc \in {"cleaned", "slides"}
    /\ entry = "http"
    /\ Len(generated) = Len(slides_content)
    /\ files' = Save(files, StoredFile("outputs",
                                       ZipFilename(request.topic, request.format_type),
                                       now, NoSlide))
    /\ reached' = reached \cup {"zip"}
    /\ response' = Response(200, "none", generated)
    /\ gpc' = "done"
    /\ UNCHANGED <<genConst, dirs, keep_latest, to_remove, remove_failed,
                   slides_content, generated, now, notGen>>

\* create_download_zip raises.
HttpZipFails ==
    /\ gpc \in {"cleaned", "slides"}
    /\ entry = "http"
    /\ Len(generated) = Len(slides_content)
    /\ reached' = reached \cup {"zip"}
    /\ response' = Response(500, "HTTPException", <<>>)
    /\ gpc' = "done"
    /\ UNCHANGED <<genConst, files, dirs, keep_latest, to_remove, remove_failed,
                   slides_content, generated, now, notGen>>

GenNext ==
    \/ HttpUnavailable \/ HttpReject \/ HttpAccept
    \/ EngineReject \/ EngineStart
    \/ CleanupGlob \/ CleanupRemove \/ CleanupRemoveFails \/ CleanupDone \/ CleanupReturn
    \/ Tick \/ GenerateSlide \/ SaveFails
    \/ EngineReturn \/ HttpRespond \/ HttpZipFails

SpecGenerate == GenInit /\ [][GenNext]_vars

(* ------------------ add_text_overlay calls in parallel ----------------- *)
\* Two calls of add_text_overlay whose statements interleave.  calls[c] holds
\* the arguments and the local variables of call c.
Callers == {"first", "second"}

CallSlides ==
    [title : {<<"a", SP, "b">>, <<"b", SP>> \o LongWord \o <<SP, "b">>},
     subtitle : {<<"b", SP, "a">>}]

CallImages(ft) ==
    {ColorBackground(FORMATS(ft).width, FORMATS(ft).height, 1),
     StockBackground(<<FORMATS(ft).width, FORMATS(ft).height>>)}

CallsInit ==
    /\ WrapUnused /\ RenderUnused
    /\ AIUnused /\ StockUnused /\ ContentUnused /\ GenUnused /\ OverlayUnused
    /\ \E available \in {AllLoaded, NoneLoaded} :
          calls \in {cs \in [Callers -> [pc : {"called"},
                                         format_type : FormatKeys,
                                         image : UNION {CallImages(ft) : ft \in FormatKeys},
                                         slide_data : CallSlides,
                                         slide_number : {1, 2},
                                         available : {available},
                                         img_with_text : {None},
                                         fonts : {None},
                                         title_start_y : {0},
                                         total_title_height : {0},
                                         returned : {None}]] :
                       /\ cs["first"].slide_number = 1
                       /\ cs["second"].slide_number = 2
                       /\ \A c \in Callers : cs[c].image \in CallImages(cs[c].format_type)}

\* Variant: the canvas is one object the calls share, the one the first call made.
OwnCanvas_Shared(cs, c) ==
    IF cs["first"].img_with_text # None THEN cs["first"].img_with_text
    ELSE cs[c].img_with_text

\* img_with_text, a local variable of the call.
OwnCanvas(cs, c) == cs[c].img_with_text

\* draw.text(...) and alpha_composite on the call's canvas.
Drawn(cs, c, ops) ==
    [OwnCanvas(cs, c) EXCEPT !.layers = @ \o ops]

\* img_with_text = image.copy()
CallCopy(c) ==
    /\ calls[c].pc = "called"
    /\ calls' = [calls EXCEPT ![c].pc = "copied",
                              ![c].img_with_text =
                                  [size |-> calls[c].image.size,
                                   mode |-> calls[c].image.mode,
                                   base |-> calls[c].image.base,
                                   layers |-> CopiedLayers(calls[c].image)]]
    /\ UNCHANGED notCalls

\* The sizes for the format and the three fonts.
CallLoadFonts(c) ==
    /\ calls[c].pc = "copied"
    /\ calls' = [calls EXCEPT ![c].pc = "fonts",
                              ![c].fonts = LoadFonts(OverlaySizes(calls[c].format_type),
                                                     calls[c].available)]
    /\ UNCHANGED notCalls

\* The semi-transparent overlay.
CallDarken(c) ==
    /\ calls[c].pc = "fonts"
    /\ calls' = [calls EXCEPT ![c].pc = "darkened",
                              ![c].img_with_text = Drawn(calls, c, <<DarkenOp>>)]
    /\ UNCHANGED notCalls

\* The slide number, top left.
CallNumber(c) ==
    /\ calls[c].pc = "darkened"
    /\ LET cfg == OverlaySizes(calls[c].format_type)
       IN  calls' = [calls EXCEPT
                        ![c].pc = "numbered",
                        ![c].img_with_text =
                            Drawn(calls, c, <<TextOp(Decimal(calls[c].slide_number), cfg.margin,
                                                     cfg.margin, calls[c].fonts.number, 3)>>)]
    /\ UNCHANGED notCalls

\* The title: wrapped, placed, drawn line by line.
CallTitle(c) ==
    /\ calls[c].pc = "numbered"
    /\ LET cfg == OverlaySizes(calls[c].format_type)
           width == calls[c].img_with_text.size[1]
           height == calls[c].img_with_text.size[2]
           title_lines == Split(WrapText(calls[c].slide_data.title,
                                         FontTable(calls[c].fonts.title),
                                         MaxTextWidth(width, cfg.text_margin)), NL)
           title_line_height == cfg.title_size + 10
           total_title_height == Len(title_lines) * title_line_height
           title_start_y == TitleStartY(height, total_title_height)
       IN  calls' = [calls EXCEPT
                        ![c].pc = "titled",
                        ![c].title_start_y = title_start_y,
                        ![c].total_title_height = total_title_height,
                        ![c].img_with_text =
                            Drawn(calls, c, DrawLines(title_lines, calls[c].fonts.title, width,
                                                      title_start_y, title_line_height, 4))]
    /\ UNCHANGED notCalls

\* The subtitle, below the title.
CallSubtitle(c) ==
    /\ calls[c].pc = "titled"
    /\ LET cfg == OverlaySizes(calls[c].format_type)
           width == calls[c].img_with_text.size[1]
           subtitle_lines == Split(WrapText(calls[c].slide_data.subtitle,
                                            FontTable(calls[c].fonts.subtitle),
                                            MaxTextWidth(width, cfg.text_margin)), NL)
       IN  calls' = [calls EXCEPT
                        ![c].pc = "subtitled",
                        ![c].img_with_text =
                            Drawn(calls, c,
                                  DrawLines(subtitle_lines, calls[c].fonts.subtitle, width,
                                            SubtitleStartY(calls[c].title_start_y,
                                                           calls[c].total_title_height),
                                            cfg.subtitle_size + 8, 2))]
    /\ UNCHANGED notCalls

\* return img_with_text.convert('RGB')
CallReturn(c) ==
    /\ calls[c].pc = "subtitled"
    /\ calls' = [calls EXCEPT ![c].pc = "returned",
                              ![c].returned = [OwnCanvas(calls, c) EXCEPT !.mode = "RGB"]]
    /\ UNCHANGED notCalls

CallsNext ==
    \E c \in Callers :
        \/ CallCopy(c) \/ CallLoadFonts(c) \/ CallDarken(c) \/ CallNumber(c)
        \/ CallTitle(c) \/ CallSubtitle(c) \/ CallReturn(c)

SpecCalls == CallsInit /\ [][CallsNext]_vars

(* ---------------- add_text_overlay on a heap of image objects ---------- *)
\* The images of a call are objects: heap[r] is the canvas the reference r
\* names, and 0 is no reference.  Both add_text_overlay functions are
\* modelled, the one of generate_listicle.py and the one generate_slideshow.py
\* and test_slideshow.py share.
Variants == {"listicle", "slideshow"}

\* The literal sizes and the (80, 80) corner of the slideshow's overlay.
SlideshowSizes ==
    [title_size |-> 80, subtitle_size |-> 50, number_size |-> 120,
     margin |-> 80, text_margin |-> 0]

\* Variant: copy() hands back the image it was called on.
ImageCopy_Alias(h, r) == [heap |-> h, ref |-> r]

\* Image.copy(): a new object with the same pixels, mode and size.
ImageCopy(h, r) == [heap |-> Append(h, h[r]), ref |-> Len(h) + 1]

\* Image.new(mode, size, (0, 0, 0, alpha)): a new object filled with one colour.
ImageNew(h, mode, size, alpha) ==
    [heap |-> Append(h, [size |-> size, mode |-> mode,
                         base |-> <<"fill", alpha>>, layers |-> <<>>]),
     ref |-> Len(h) + 1]

\* Image.convert(mode): a new object, also when the mode is the same.
ImageConvert(h, r, mode) ==
    [heap |-> Append(h, [h[r] EXCEPT !.mode = mode]), ref |-> Len(h) + 1]

\* Image.alpha_composite(im1, im2): a new object, im2 laid over im1.
AlphaComposite(h, im1, im2) ==
    [heap |-> Append(h, [h[im1] EXCEPT
                            !.layers = @ \o <<[DarkenOp EXCEPT !.alpha = h[im2].base[2]]>>]),
     ref |-> Len(h) + 1]

\* draw.text(...): ImageDraw.Draw(im) draws into the object im itself.
DrawText(h, r, ops) == [h EXCEPT ![r].layers = @ \o ops]

\* The backgrounds the callers pass: the listicle's three kinds in the
\* format's size, the slideshow's 1920x1080 image.
OverlayImages(v, ft) ==
    IF v = "listicle"
    THEN {ColorBackground(FORMATS(ft).width, FORMATS(ft).height, 1),
          AIBackground(FORMATS(ft).width, FORMATS(ft).height),
          StockBackground(<<FORMATS(ft).width, FORMATS(ft).height>>)}
    ELSE {AIBackground(1920, 1080), ColorBackground(1920, 1080, 0)}

OverlayInit ==
    /\ WrapUnused /\ RenderUnused
    /\ AIUnused /\ StockUnused /\ ContentUnused /\ GenUnused /\ CallsUnused
    /\ \E v \in Variants, ft \in FormatKeys, sd \in CallSlides, n \in {1, 2},
          available \in {AllLoaded, NoneLoaded} :
         \E img \in OverlayImages(v, ft) :
            /\ v = "slideshow" => ft = "landscape"
            /\ heap = <<img>>
            /\ ov = [pc |-> "called", variant |-> v, format_type |-> ft,
                     image |-> 1, before |-> img,
                     slide_data |-> sd, slide_number |-> n, available |-> available,
                     img_with_text |-> 0, draw |-> 0, fonts |-> None,
                     title_start_y |-> 0, total_title_height |-> 0, returned |-> 0]

\* Font sizes and margins: by format in the listicle, literals in the slideshow.
OvSizes == IF ov.variant = "listicle" THEN OverlaySizes(ov.format_type) ELSE SlideshowSizes

\* img_with_text = image.copy(); draw = ImageDraw.Draw(img_with_text)
OvCopy ==
    /\ ov.pc = "called"
    /\ LET c == ImageCopy(heap, ov.image)
       IN  /\ heap' = c.heap
           /\ ov' = [ov EXCEPT !.pc = "copied", !.img_with_text = c.ref, !.draw = c.ref]
    /\ UNCHANGED notOverlay

\* The three fonts, or the default font for all three.
OvLoadFonts ==
    /\ ov.pc = "copied"
    /\ ov' = [ov EXCEPT !.pc = "fonts", !.fonts = LoadFonts(OvSizes, ov.available)]
    /\ UNCHANGED <<heap, notOverlay>>

\* overlay = Image.new('RGBA', image.size, (0, 0, 0, 100))
\* img_with_text = Image.alpha_composite(img_with_text.convert('RGBA'), overlay)
\* draw = ImageDraw.Draw(img_with_text)
OvDarken ==
    /\ ov.pc = "fonts"
    /\ ov.variant = "listicle"
    /\ LET overlay == ImageNew(heap, "RGBA", heap[ov.image].size, 100)
           rgba    == ImageConvert(overlay.heap, ov.img_with_text, "RGBA")
           comp    == AlphaComposite(rgba.heap, rgba.ref, overlay.ref)
       IN  /\ heap' = comp.heap
           /\ ov' = [ov EXCEPT !.pc = "darkened", !.img_with_text = comp.ref,
                               !.draw = comp.ref]
    /\ UNCHANGED notOverlay

\* The slide number, top left; the slideshow has no darkening before it.
OvNumber ==
    /\ ov.pc = (IF ov.variant = "listicle" THEN "darkened" ELSE "fonts")
    /\ heap' = DrawText(heap, ov.draw,
                        <<TextOp(Decimal(ov.slide_number), OvSizes.margin, OvSizes.margin,
                                 ov.fonts.number, 3)>>)
    /\ ov' = [ov EXCEPT !.pc = "numbered"]
    /\ UNCHANGED notOverlay

\* The title: wrapped and centred as a block in the listicle, one line at
\* (height // 2) - 60 in the slideshow.
OvTitle ==
    /\ ov.pc = "numbered"
    /\ LET img    == heap[ov.img_with_text]
           width  == img.size[1]
           height == img.size[2]
           lay    == Layout(img, ov.slide_data, ov.format_type, ov.available)
       IN  IF ov.variant = "listicle"
           THEN /\ heap' = DrawText(heap, ov.draw,
                                    DrawLines(lay.title_lines, ov.fonts.title, width,
                                              lay.title_start_y, lay.title_line_height, 4))
                /\ ov' = [ov EXCEPT !.pc = "titled",
                                    !.title_start_y = lay.title_start_y,
                                    !.total_title_height = lay.total_title_height]
           ELSE /\ heap' = DrawText(heap, ov.draw,
                                    <<TextOp(ov.slide_data.title,
                                             LineX(width, TextWidth(ov.slide_data.title,
                                                                    FontTable(ov.fonts.title))),
                                             (height \div 2) - 60, ov.fonts.title, 4)>>)
                /\ ov' = [ov EXCEPT !.pc = "titled",
                                    !.title_start_y = (height \div 2) - 60]
    /\ UNCHANGED notOverlay

\* The subtitle: below the title block in the listicle, at title_y + 100 in
\* the slideshow.
OvSubtitle ==
    /\ ov.pc = "titled"
    /\ LET img   == heap[ov.img_with_text]
           width == img.size[1]
           lay   == Layout(img, ov.slide_data, ov.format_type, ov.available)
       IN  IF ov.variant = "listicle"
           THEN heap' = DrawText(heap, ov.draw,
                                 DrawLines(lay.subtitle_lines, ov.fonts.subtitle, width,
                                           SubtitleStartY(ov.title_start_y,
                                                          ov.total_title_height),
                                           lay.subtitle_line_height, 2))
           ELSE heap' = DrawText(heap, ov.draw,
                                 <<TextOp(ov.slide_data.subtitle,
                                          LineX(width, TextWidth(ov.slide_data.subtitle,
                                                                 FontTable(ov.fonts.subtitle))),
                                          ov.title_start_y + 100, ov.fonts.subtitle, 2)>>)
    /\ ov' = [ov EXCEPT !.pc = "subtitled"]
    /\ UNCHANGED notOverlay

\* return img_with_text.convert('RGB') in the listicle, return img_with_text
\* in the slideshow.
OvReturn ==
    /\ ov.pc = "subtitled"
    /\ IF ov.variant = "listicle"
       THEN LET rgb == ImageConvert(heap, ov.img_with_text, "RGB")
            IN  /\ heap' = rgb.heap
                /\ ov' = [ov EXCEPT !.pc = "returned", !.returned = rgb.ref]
       ELSE /\ heap' = heap
            /\ ov' = [ov EXCEPT !.pc = "returned", !.returned = ov.img_with_text]
    /\ UNCHANGED notOverlay

OverlayNext ==
    \/ OvCopy
    \/ OvLoadFonts
    \/ OvDarken
    \/ OvNumber
    \/ OvTitle
    \/ OvSubtitle
    \/ OvReturn

SpecOverlay == OverlayInit /\ [][OverlayNext]_vars

(* ------------------------ properties of wrap_text ---------------------- *)
\* The lines the caller obtains from the returned string (split on newline).
ReturnedLines == Split(wrapped, NL)

WidestWordFits ==
    \A i \in DOMAIN WsWords(text) : TextWidth(WsWords(text)[i], font) <= max_width

\* C1: when max_width is at least the width of the widest word of the text,
\* the returned lines rejoined with single spaces hold exactly the words of
\* the text in their original order (none dropped, duplicated, reordered or
\* split).
C1_WordsPreserved ==
    (wpc = "done" /\ WidestWordFits)
        => WsWords(Join(ReturnedLines, SP)) = WsWords(text)

C1_Witness ==
    /\ wpc = "done"
    /\ WidestWordFits
    /\ \A k \in DOMAIN text : text[k] # NL
    /\ Len(ReturnedLines) >= 2
    /\ \E i \in DOMAIN ReturnedLines : Len(WsWords(ReturnedLines[i])) >= 2

GreedyStep ==
    (wpc = "loop" /\ widx <= Len(words)) =>
        IF TextWidth(TestLine, font) <= max_width
        THEN /\ current_line' = TestLine
             /\ lines' = lines
        ELSE /\ Len(lines') = Len(lines) + 1
             /\ SubSeq(lines', 1, Len(lines)) = lines
             /\ \/ current_line # <<>> /\ lines'[Len(lines')] = current_line
                                       /\ current_line' = words[widx]
                \/ current_line = <<>> /\ lines'[Len(lines')] = words[widx]
                                       /\ current_line' = <<>>

ScenarioWraps ==
    (wpc = "done" /\ text = ScenarioTitle /\ font \in ScenarioFonts
                  /\ max_width = ScenarioBudget)
        => /\ ReturnedLines = lines
           /\ [i \in DOMAIN lines |-> Len(WsWords(lines[i]))] = <<5, 5, 2>>
           /\ \A i \in DOMAIN lines : lines[i] = Join(WsWords(lines[i]), SP)

C3_Greedy == [][GreedyStep]_vars /\ []ScenarioWraps

C3_Witness ==
    /\ wpc = "done"
    /\ text = ScenarioTitle
    /\ font[SP] = 32
    /\ Len(lines) = 3

\* C4: a word wider than max_width, wherever it stands, is emitted unmodified
\* as a line of its own, and every word of the text is still kept in order.
C4_LongWordAlone ==
    wpc = "done" =>
        /\ \A i \in DOMAIN ReturnedLines :
              \A j \in DOMAIN WsWords(ReturnedLines[i]) :
                  TextWidth(WsWords(ReturnedLines[i])[j], font) > max_width
                      => ReturnedLines[i] = WsWords(ReturnedLines[i])[j]
        /\ \A i \in DOMAIN lines :
              \A j \in DOMAIN Split(lines[i], SP) :
                  TextWidth(Split(lines[i], SP)[j], font) > max_width
                      => lines[i] = Split(lines[i], SP)[j]
        /\ WsWords(Join(lines, SP)) = WsWords(text)

C4_Witness ==
    /\ wpc = "done"
    /\ Len(lines) = 3
    /\ TextWidth(lines[1], font) <= max_width
    /\ TextWidth(lines[2], font) > max_width
    /\ TextWidth(lines[3], font) <= max_width
    /\ lines[2] = words[2]

\* The words packed into the lines, read off at the joining spaces.
RECURSIVE PackedWords(_)
PackedWords(ls) ==
    IF ls = <<>> THEN <<>> ELSE Split(Head(ls), SP) \o PackedWords(Tail(ls))

\* C5: the text is split on whitespace: the packed words are exactly the
\* maximal non-whitespace runs, no empty word is produced, and an emitted
\* line holds no whitespace but the single spaces joining its words.
C5_SplitsOnWhitespace ==
    wpc = "done" =>
        /\ PackedWords(lines) = WsWords(text)
        /\ \A i \in DOMAIN PackedWords(lines) : PackedWords(lines)[i] # <<>>
        /\ \A i \in DOMAIN lines : lines[i] = Join(WsWords(lines[i]), SP)

\* C6: the empty text wraps, for every max_width, to an empty line set and
\* the empty string, which the caller splits into one empty line.
C6_EmptyText ==
    (wpc = "done" /\ text = <<>>)
        => /\ lines = <<>>
           /\ wrapped = <<>>
           /\ ReturnedLines = << <<>> >>

C6_Witness == wpc = "done" /\ text = <<>> /\ max_width = 0

(* --------------------- properties of add_text_overlay ------------------ *)
TitleOps == SelectSeq(rendered.layers, LAMBDA o : o.op = "text" /\ o.stroke_width = 4)
SubtitleOps == SelectSeq(rendered.layers, LAMBDA o : o.op = "text" /\ o.stroke_width = 2)

OpWidth(o) == TextWidth(o.s, FontTable(o.font))

\* C7: a title of n >= 1 lines has block height n * (titleFontSize + 10); its
\* first line is drawn at y = H/2 - blockHeight/2 - 30 (integer divisions),
\* line i at y + i * (titleFontSize + 10), each at x = (Wc - lineWidth)/2.
C7_TitlePlacement ==
    rpc = "done" =>
        LET n      == Len(TitleOps)
            step   == (IF format_type = "portrait" THEN 75 ELSE 70) + 10
            block  == n * step
            y0     == (rendered.size[2] \div 2) - (block \div 2) - 30
        IN  /\ n >= 1
            /\ n = Len(layout.title_lines)
            /\ layout.total_title_height = block
            /\ \A i \in 1..n :
                  /\ TitleOps[i].s = layout.title_lines[i]
                  /\ TitleOps[i].y = y0 + ((i - 1) * step)
                  /\ TitleOps[i].x = (rendered.size[1] - OpWidth(TitleOps[i])) \div 2

C7_Witness ==
    /\ rpc = "done"
    /\ format_type = "portrait"
    /\ Len(TitleOps) = 3
    /\ OpWidth(TitleOps[1]) # OpWidth(TitleOps[3])

\* C8: the subtitle block starts at titleStartY + titleTotalHeight + 50 with
\* line spacing subtitleFontSize + 8, so the title block's start plus its
\* total height is at most the subtitle's start and no title line's y-range
\* reaches a subtitle line.
C8_NoOverlap ==
    rpc = "done" =>
        LET tstep == (IF format_type = "portrait" THEN 75 ELSE 70) + 10
            sstep == (IF format_type = "portrait" THEN 45 ELSE 42) + 8
            total == Len(TitleOps) * tstep
        IN  /\ Len(TitleOps) >= 1
            /\ Len(SubtitleOps) >= 1
            /\ SubtitleOps[1].y = TitleOps[1].y + total + 50
            /\ TitleOps[1].y + total <= SubtitleOps[1].y
            /\ \A j \in DOMAIN SubtitleOps :
                  SubtitleOps[j].y = SubtitleOps[1].y + ((j - 1) * sstep)
            /\ \A i \in DOMAIN TitleOps : \A j \in DOMAIN SubtitleOps :
                  TitleOps[i].y + tstep <= SubtitleOps[j].y

C8_Witness ==
    /\ rpc = "done"
    /\ Len(TitleOps) >= 2
    /\ Len(SubtitleOps) >= 2

\* C9: in every render title and subtitle are wrapped against the same
\* budget canvasWidth - 2 * textMargin, the budget is strictly positive, 1620
\* for landscape and 880 for portrait, and a title and a subtitle that measure
\* within the budget give one line each.
C9_Budget ==
    rpc = "done" =>
        LET tm == IF format_type = "portrait" THEN 100 ELSE 150
        IN  /\ layout.max_title_width = layout.max_subtitle_width
            /\ layout.max_title_width = rendered.size[1] - (2 * tm)
            /\ layout.max_title_width > 0
            /\ layout.max_title_width = (IF format_type = "portrait" THEN 880 ELSE 1620)
            /\ (/\ TextWidth(slide_data.title, FontTable(TitleOps[1].font)) <= layout.max_title_width
                /\ TextWidth(slide_data.subtitle, FontTable(SubtitleOps[1].font))
                       <= layout.max_subtitle_width)
                  => (Len(TitleOps) = 1 /\ Len(SubtitleOps) = 1)

DarkenAt == {i \in DOMAIN rendered.layers : rendered.layers[i].op = "darken"}
TextAt == {i \in DOMAIN rendered.layers : rendered.layers[i].op = "text"}

\* C11: on every slide, whatever the background type, exactly one black layer
\* of alpha 100 lies over the background, and it is composited before the
\* number, the title and the subtitle are drawn.
C11_OneDarkening ==
    rpc = "done" =>
        /\ Cardinality(DarkenAt) = 1
        /\ \A i \in DarkenAt : rendered.layers[i].alpha = 100
        /\ \A i \in DarkenAt : \A j \in TextAt : i < j

\* C12: every canvas of the slide loop is RGB and has exactly the width and
\* height of the selected profile, for each background type, a fetched stock
\* photo and the fallback backgrounds included.
C12_ProfileCanvas ==
    /\ rpc \in {"overlay", "done"} =>
          /\ image.mode = "RGB"
          /\ image.size = <<FORMATS(format_type).width, FORMATS(format_type).height>>
    /\ rpc = "done" =>
          /\ rendered.mode = "RGB"
          /\ rendered.size = <<FORMATS(format_type).width, FORMATS(format_type).height>>

NumberOps == SelectSeq(rendered.layers, LAMBDA o : o.op = "text" /\ o.stroke_width = 3)

\* C13: when one of the three font loads fails the slide is still rendered,
\* all three fonts are the built-in default font (never a mix of the system
\* face and the default font), and title and subtitle are wrapped and placed
\* by the same rules with that font.
C13_FontFallback ==
    rpc = "done" =>
        LET kind == IF font_available = AllLoaded THEN "truetype" ELSE "default"
            tm   == IF format_type = "portrait" THEN 100 ELSE 150
            tstep == (IF format_type = "portrait" THEN 75 ELSE 70) + 10
        IN  /\ \A i \in TextAt : rendered.layers[i].font.kind = kind
            /\ Len(NumberOps) = 1
            /\ Len(TitleOps) >= 1
            /\ Len(SubtitleOps) >= 1
            /\ [i \in DOMAIN TitleOps |-> TitleOps[i].s]
                  = Split(WrapText(slide_data.title, FontTable(TitleOps[1].font),
                                   rendered.size[1] - (2 * tm)), NL)
            /\ [i \in DOMAIN SubtitleOps |-> SubtitleOps[i].s]
                  = Split(WrapText(slide_data.subtitle, FontTable(SubtitleOps[1].font),
                                   rendered.size[1] - (2 * tm)), NL)
            /\ \A i \in DOMAIN TitleOps :
                  /\ TitleOps[i].y = TitleOps[1].y + ((i - 1) * tstep)
                  /\ TitleOps[i].x = (rendered.size[1] - OpWidth(TitleOps[i])) \div 2

C13_Witness ==
    /\ rpc = "done"
    /\ font_available.title
    /\ ~font_available.number
    /\ Len(TitleOps) >= 1
    /\ TitleOps[1].font.kind = "default"

(* ------------------- properties of the two backgrounds ----------------- *)
\* C15: the diffusion pipeline is a lazy singleton: a load is attempted only
\* when no pipeline is cached; after a load has fully succeeded no later call
\* loads again; and a call whose load fails, the move to the device included,
\* leaves nothing cached, returns the color fallback, and is followed by a
\* call that attempts the load again.
C15_LazySingleton ==
    ai_call # None =>
        /\ ai_call.load # "skipped" => ~ai_call.cached
        /\ ai_call.loaded_before => ai_call.load = "skipped"
        /\ ai_call.load \in {"load_failed", "move_failed"} =>
              /\ pipe = "absent"
              /\ ai_call.image = ColorBackground(ai_call.size[1], ai_call.size[2], 0)
        /\ ai_call.after_failure => ai_call.load # "skipped"

\* C16: create_stock_background tries its five queries in the fixed order
\* (topic abstract, topic professional, gradient abstract, minimal
\* professional, business background), returns the image of the first query
\* whose fetch and decoding succeed without trying later ones, and returns the
\* color background when every query fails; it always returns an image.
DecodedQueries ==
    {i \in DOMAIN stock_log : stock_log[i].outcome \in {"ok", "remove_raises"}}

C16_FallbackChain ==
    stock_pc = "returned" =>
        /\ Len(stock_log) <= 5
        /\ \A i \in DOMAIN stock_log :
              stock_log[i].term =
                 CASE i = 1 -> Keywords(stock_topic) \o <<" ", "a", "b", "s", "t", "r", "a", "c", "t">>
                   [] i = 2 -> Keywords(stock_topic) \o <<" ", "p", "r", "o", "f", "e", "s", "s", "i", "o", "n", "a", "l">>
                   [] i = 3 -> <<"g", "r", "a", "d", "i", "e", "n", "t", " ", "a", "b", "s", "t", "r", "a", "c", "t">>
                   [] i = 4 -> <<"m", "i", "n", "i", "m", "a", "l", " ", "p", "r", "o", "f", "e", "s", "s", "i", "o", "n", "a", "l">>
                   [] i = 5 -> <<"b", "u", "s", "i", "n", "e", "s", "s", " ", "b", "a", "c", "k", "g", "r", "o", "u", "n", "d">>
        /\ stock_result # None
        /\ stock_result.mode = "RGB"
        /\ IF DecodedQueries = {}
           THEN /\ Len(stock_log) = 5
                /\ stock_result = ColorBackground(stock_size[1], stock_size[2], 0)
           ELSE /\ \A i \in DecodedQueries : Len(stock_log) <= i
                /\ stock_result.base = <<"stock", 0>>

(* ---------------------- properties of the content ---------------------- *)
\* The keys of the content library in the order they are declared.
DeclaredKeys ==
    <<<<"p", "r", "o", "d", "u", "c", "t", "i", "v", "i", "t", "y">>,
      <<"m", "a", "r", "k", "e", "t", "i", "n", "g">>,
      <<"f", "i", "t", "n", "e", "s", "s">>,
      <<"m", "o", "n", "e", "y">>,
      <<"t", "r", "a", "v", "e", "l">>,
      <<"h", "e", "a", "l", "t", "h">>,
      <<"c", "o", "o", "k", "i", "n", "g">>,
      <<"l", "e", "a", "r", "n", "i", "n", "g">>>>

\* The declared keys the cleaned topic matches: a word of the cleaned topic is
\* a substring of the key, or the key is a substring of the cleaned topic.
KeysMatched ==
    {i \in DOMAIN DeclaredKeys :
        \/ \E k \in DOMAIN WsWords(clean_topic) :
              Contains(DeclaredKeys[i], WsWords(clean_topic)[k])
        \/ Contains(clean_topic, DeclaredKeys[i])}

\* C18: content selection is first-match-wins in declaration order: the
\* template chosen is that of the earliest declared key the cleaned topic
\* matches, and a topic matching no key gets the generic 8-entry template.
C18_FirstMatchWins ==
    cpc \in {"matched", "returned"} =>
        /\ KeysMatched # {} =>
              /\ matched_key \in KeysMatched
              /\ \A i \in KeysMatched : matched_key <= i
              /\ content_library[matched_key].key = DeclaredKeys[matched_key]
        /\ KeysMatched = {} =>
              /\ matched_key = 0
              /\ Len(MatchedContent(matched_key, clean_topic)) = 8
        /\ cpc = "returned" =>
              \A i \in DOMAIN slides :
                 \E j \in DOMAIN MatchedContent(matched_key, clean_topic) :
                    /\ slides[i].title = MatchedContent(matched_key, clean_topic)[j].title
                    /\ slides[i].subtitle =
                          MatchedContent(matched_key, clean_topic)[j].subtitle

\* A topic matching both money and health was given the money template.
C18_Witness ==
    /\ cpc = "returned"
    /\ {4, 6} \subseteq KeysMatched
    /\ matched_key = 4
    /\ num_slides >= 1
    /\ slides[1].title = "Emergency Fund First"

(* ------------------- properties of a generation request ---------------- *)
\* The request is one the claim calls invalid: an unknown format key or
\* background type and, at the HTTP endpoint, a blank topic or a number of
\* slides outside 1..10.
RequestInvalid ==
    /\ entry \in {"http", "direct"}
    /\ \/ request.format_type \notin {"landscape", "portrait"}
       \/ request.background_type \notin {"color", "ai", "stock"}
       \/ /\ entry = "http"
          /\ \/ \A i \in DOMAIN request.topic : request.topic[i] \in Whitespace
             \/ request.num_slides \notin 1..10

\* Nothing of the engine has happened and the file store is as it was.
EngineUntouched ==
    /\ reached = {}
    /\ files = store0.files
    /\ dirs = store0.dirs
    /\ generated = <<>>

\* C14 (as stated): an invalid request never reaches the engine and leaves the
\* file store unchanged; it is rejected with status 400 by /generate and with
\* ValueError by generate_listicle_images.
C14_InvalidRejected ==
    RequestInvalid =>
        /\ EngineUntouched
        /\ gpc = "done" =>
              IF entry = "http" THEN response.status = 400
              ELSE response.raised = "ValueError"

\* C14 (amended): as stated, except that /generate answers 500 instead of 400
\* when the generator module could not be imported.
C14_InvalidRejectedOrUnavailable ==
    RequestInvalid =>
        /\ EngineUntouched
        /\ gpc = "done" =>
              IF entry = "http"
              THEN response.status = (IF generator_available THEN 400 ELSE 500)
              ELSE response.raised = "ValueError"

\* A request with a blank topic and nothing else wrong was answered 400.
C14_Witness ==
    /\ gpc = "done"
    /\ entry = "http"
    /\ request.format_type = "portrait"
    /\ request.background_type = "stock"
    /\ request.num_slides = 1
    /\ request.topic = BlankTopic
    /\ store0 = BigStore
    /\ response.status = 400

\* The PNG files of the output directory before the call and now.
OutputDir == request.format_type

IsPNG(f) == Len(f.name) >= 4 /\ SubSeq(f.name, Len(f.name) - 3, Len(f.name)) = <<".", "p", "n", "g">>

PNGBefore == {f \in store0.files : f.dir = OutputDir /\ IsPNG(f)}

PNGNow == {f \in files : f.dir = OutputDir /\ IsPNG(f)}

\* C17: cleanup_old_images(dir, keep_latest=N) removes nothing when dir holds
\* at most N PNG files; otherwise, all removals succeeding, exactly N PNG
\* files remain and every removed file is no newer than every kept one;
\* non-PNG files are never removed; and generate_listicle_images runs it with
\* N = 10 before it writes, so that no slide of the same call is removed.
C17_KeepsLatest ==
    /\ gpc = "cleaned" /\ remove_failed = {} =>
          /\ Cardinality(PNGBefore) <= keep_latest => files = store0.files
          /\ Cardinality(PNGBefore) > keep_latest =>
                /\ Cardinality(PNGNow) = keep_latest
                /\ PNGNow \subseteq PNGBefore
                /\ \A r \in PNGBefore \ PNGNow : \A k \in PNGNow : r.mtime <= k.mtime
    /\ gpc \in {"cleanup", "removing", "cleaned"} =>
          /\ files \subseteq store0.files
          /\ \A f \in store0.files : ~(f.dir = OutputDir /\ IsPNG(f)) => f \in files
    /\ entry \in {"http", "direct"} =>
          /\ gpc \in {"cleanup", "removing", "cleaned"} =>
                keep_latest = 10 /\ generated = <<>>
          /\ \A i \in DOMAIN generated :
                \E f \in files : PathOf(f) = generated[i] /\ f.content.slide_number = i

\* A run of generate_listicle_images whose cleanup removed the two oldest of
\* twelve pictures and which then wrote its slides.
C17_Witness ==
    /\ gpc = "done"
    /\ entry = "direct"
    /\ remove_failed = {}
    /\ Cardinality(PNGBefore) = 12
    /\ Cardinality(PNGBefore \cap PNGNow) = 10
    /\ Len(generated) = 2
    /\ response.paths = generated

\* The template the topic of the request selects.
RequestTemplate ==
    MatchedContent(FindContent(1, CleanTopic(request.topic)), CleanTopic(request.topic))

TemplateLength == IF FindContent(1, CleanTopic(request.topic)) = 0 THEN 8 ELSE 5

\* generate_listicle_images has returned its paths to the caller.
CallReturned ==
    /\ gpc = "done"
    /\ \/ entry = "direct" /\ response.raised = "none"
       \/ entry = "http" /\ response.status = 200

\* C20: generate_content_for_topic returns exactly n slides, slide i (from 0)
\* taking title and subtitle from entry i mod L of the chosen template (L = 5
\* for a library template, 8 for the generic one) and theme i mod 8;
\* generate_listicle_images returns n pairwise distinct paths in slide order,
\* the i-th carrying slide number i+1, and each named file exists on return.
C20_SlidesAndPaths ==
    /\ entry \in {"http", "direct"} /\ "content" \in reached =>
          LET template == RequestTemplate
              L == TemplateLength
          IN  /\ Len(slides_content) = request.num_slides
              /\ Len(template) = L
              /\ \A i \in 0..(request.num_slides - 1) :
                    /\ slides_content[i + 1].title = template[(i % L) + 1].title
                    /\ slides_content[i + 1].subtitle = template[(i % L) + 1].subtitle
                    /\ slides_content[i + 1].visual_theme = themes[(i % 8) + 1]
    /\ CallReturned =>
          /\ Len(response.paths) = request.num_slides
          /\ \A i, j \in DOMAIN response.paths :
                i # j => response.paths[i] # response.paths[j]
          /\ \A i \in 0..(request.num_slides - 1) :
                /\ SubSeq(response.paths[i + 1][2], 1, 9) =
                      <<"s", "l", "i", "d", "e", "_">> \o <<ToString((i + 1) \div 10), ToString((i + 1) % 10), "_">>
                /\ \E f \in files :
                      /\ PathOf(f) = response.paths[i + 1]
                      /\ f.content.slide_number = i + 1
                      /\ f.content.title = slides_content[i + 1].title

\* A call for more than eight slides on a topic no key matches has returned.
C20_Witness ==
    /\ CallReturned
    /\ FindContent(1, CleanTopic(request.topic)) = 0
    /\ Len(response.paths) > 8
    /\ slides_content[9].title = "Research First"

(* ------------------------ properties of parallel calls ----------------- *)
\* C19: in any interleaving of render calls that each have their own canvas,
\* every call returns the output it would return when run alone.
C19_Reentrant ==
    \A c \in Callers :
        calls[c].pc = "returned" =>
            calls[c].returned = AddTextOverlay(calls[c].image, calls[c].slide_data,
                                               calls[c].slide_number, calls[c].format_type,
                                               calls[c].available)

\* The second call returned although the first, on another format and another
\* slide, had copied its canvas before and was still drawing.
C19_Witness ==
    /\ calls # <<>>
    /\ calls["second"].pc = "returned"
    /\ calls["first"].pc = "numbered"
    /\ calls["first"].format_type # calls["second"].format_type
    /\ calls["first"].slide_data # calls["second"].slide_data
    /\ Len(calls["second"].returned.layers) >= 5

(* ------------------- properties of the caller's input image ------------ *)
\* C21: add_text_overlay leaves the caller's input image unchanged: when the
\* call has returned, the object the caller passed has the pixels (its base
\* and every layer on it), the mode and the size it had at the call, and the
\* returned canvas is another object than the input.
C21_InputUnchanged ==
    (ov # None /\ ov.pc = "returned") =>
        /\ heap[ov.image].base = ov.before.base
        /\ heap[ov.image].layers = ov.before.layers
        /\ heap[ov.image].mode = ov.before.mode
        /\ heap[ov.image].size = ov.before.size
        /\ ov.returned # ov.image

\* A listicle call on a stock photo, which carries a layer of its own, has
\* returned a canvas with the darkening and the text on it.
C21_Witness ==
    /\ ov # None
    /\ ov.pc = "returned"
    /\ ov.variant = "listicle"
    /\ ov.before.layers # <<>>
    /\ Len(heap[ov.returned].layers) >= Len(ov.before.layers) + 4
    /\ heap[ov.returned].layers[Len(ov.before.layers) + 1] = DarkenOp

====
